---- MODULE Spec2Model ----
(***************************************************************************)
(* Model of the speech-to-text core of opencode-stt (stt.ts, types.ts):    *)
(* transcribe and listBackends spawn a worker process, accumulate its      *)
(* stdout/stderr and settle a promise from the child's close/error events. *)
(*                                                                         *)
(* JavaScript strings are sequences of atoms [t, v].  The atoms of a       *)
(* worker's output are its lexical units: JSON whitespace ("ws"), other    *)
(* whitespace that String.trim strips but JSON.parse rejects ("uws"),      *)
(* punctuation, string / number literals, keywords and other text.         *)
(***************************************************************************)
EXTENDS Integers, Sequences, FiniteSets, TLC

\* ---------------------------------------------------------------- bounds
NumCalls == 1
MaxExitCode == 2
NumConcurrent == 2
PipeCapacity == 2

\* The calls made one at a time, the calls made concurrently, and all call slots.
Calls == 1..NumCalls
ConcurrentCalls == 1..NumConcurrent
AllCalls == Calls \cup ConcurrentCalls

\* ---------------------------------------------------------------- strings
Atom(t, v) == [t |-> t, v |-> v]
Txt(v) == Atom("txt", v)
WS == Atom("ws", "\n")
NBSP == Atom("uws", "nbsp")
P(v) == Atom("punct", v)
S(v) == Atom("str", v)
N(v) == Atom("num", v)
KW(v) == Atom("kw", v)

Str(v) == IF v = "" THEN <<>> ELSE <<Txt(v)>>

IsSpace(a) == a.t \in {"ws", "uws"}

RECURSIVE TrimStart(_)
TrimStart(s) == IF s # <<>> /\ IsSpace(Head(s)) THEN TrimStart(Tail(s)) ELSE s

RECURSIVE TrimEnd(_)
TrimEnd(s) ==
    IF s # <<>> /\ IsSpace(s[Len(s)]) THEN TrimEnd(SubSeq(s, 1, Len(s) - 1)) ELSE s

\* String.prototype.trim
Trim(s) == TrimEnd(TrimStart(s))

\* Number.prototype.toString for integers (decimal digits, leading minus)
DigitAtom(d) ==
    Txt(CASE d = 0 -> "0" [] d = 1 -> "1" [] d = 2 -> "2" [] d = 3 -> "3"
          [] d = 4 -> "4" [] d = 5 -> "5" [] d = 6 -> "6" [] d = 7 -> "7"
          [] d = 8 -> "8" [] d = 9 -> "9")

RECURSIVE NatToString(_)
NatToString(n) ==
    IF n < 10 THEN <<DigitAtom(n)>>
    ELSE NatToString(n \div 10) \o <<DigitAtom(n % 10)>>

IntToString(n) == IF n < 0 THEN <<Txt("-")>> \o NatToString(-n) ELSE NatToString(n)

\* s contains sub as a contiguous substring (String.prototype.includes)
Includes(s, sub) ==
    \E i \in 0..(Len(s) - Len(sub)) : SubSeq(s, i + 1, i + Len(sub)) = sub

\* ---------------------------------------------------------------- JS values
JV(k, s, keys, items) == [k |-> k, s |-> s, keys |-> keys, items |-> items]
JUndefined == JV("undefined", <<>>, <<>>, <<>>)
JNull == JV("null", <<>>, <<>>, <<>>)
JBool(b) == JV("bool", IF b THEN <<Txt("true")>> ELSE <<Txt("false")>>, <<>>, <<>>)
JNum(lit) == JV("num", <<Txt(lit)>>, <<>>, <<>>)
JStr(s) == JV("str", s, <<>>, <<>>)
JArr(items) == JV("arr", <<>>, <<>>, items)
JObj(keys, items) == JV("obj", <<>>, keys, items)
JError(msg) == JV("error", msg, <<>>, <<>>)

JTrue == JBool(TRUE)
JFalse == JBool(FALSE)

\* property read  v.key  on a non-nullish value
HasKey(v, key) == v.k = "obj" /\ \E i \in 1..Len(v.keys) : v.keys[i] = key
Get(v, key) ==
    IF HasKey(v, key)
    THEN v.items[CHOOSE i \in 1..Len(v.keys) : v.keys[i] = key]
    ELSE JUndefined

\* ToBoolean
Truthy(v) ==
    CASE v.k \in {"undefined", "null"} -> FALSE
      [] v.k = "bool" -> v = JTrue
      [] v.k = "num" -> v.s \notin {<<Txt("0")>>, <<Txt("NaN")>>}
      [] v.k = "str" -> v.s # <<>>
      [] OTHER -> TRUE

\* property definition while building an object: a repeated key keeps its
\* first position and takes the last value
ObjPut(keys, items, key, val) ==
    IF \E i \in 1..Len(keys) : keys[i] = key
    THEN [keys |-> keys,
          items |-> [i \in 1..Len(items) |-> IF keys[i] = key THEN val ELSE items[i]]]
    ELSE [keys |-> Append(keys, key), items |-> Append(items, val)]

\* ---------------------------------------------------------------- JSON.parse
\* A parse step yields [ok, val, pos]: the value read and the index after it.
Bad == [ok |-> FALSE, val |-> JUndefined, pos |-> 0]
Ok(v, pos) == [ok |-> TRUE, val |-> v, pos |-> pos]

\* JSON whitespace only: "uws" atoms are not skipped
RECURSIVE SkipWs(_, _)
SkipWs(s, i) == IF i <= Len(s) /\ s[i].t = "ws" THEN SkipWs(s, i + 1) ELSE i

IsPunct(s, i, v) == i <= Len(s) /\ s[i] = P(v)

RECURSIVE ParseValue(_, _)
RECURSIVE ParseElements(_, _, _)
RECURSIVE ParseMembers(_, _, _, _)

ParseValue(s, i) ==
    LET j == SkipWs(s, i) IN
    IF j > Len(s) THEN Bad
    ELSE LET a == s[j] IN
         CASE a = KW("null") -> Ok(JNull, j + 1)
           [] a = KW("true") -> Ok(JTrue, j + 1)
           [] a = KW("false") -> Ok(JFalse, j + 1)
           [] a.t = "num" -> Ok(JNum(a.v), j + 1)
           [] a.t = "str" -> Ok(JStr(Str(a.v)), j + 1)
           [] a = P("[") ->
                (LET k == SkipWs(s, j + 1) IN
                 IF IsPunct(s, k, "]") THEN Ok(JArr(<<>>), k + 1)
                 ELSE ParseElements(s, j + 1, <<>>))
           [] a = P("{") ->
                (LET k == SkipWs(s, j + 1) IN
                 IF IsPunct(s, k, "}") THEN Ok(JObj(<<>>, <<>>), k + 1)
                 ELSE ParseMembers(s, j + 1, <<>>, <<>>))
           [] OTHER -> Bad

ParseElements(s, i, acc) ==
    LET r == ParseValue(s, i) IN
    IF ~r.ok THEN Bad
    ELSE LET k == SkipWs(s, r.pos) IN
         IF IsPunct(s, k, ",") THEN ParseElements(s, k + 1, Append(acc, r.val))
         ELSE IF IsPunct(s, k, "]") THEN Ok(JArr(Append(acc, r.val)), k + 1)
         ELSE Bad

ParseMembers(s, i, keys, items) ==
    LET j == SkipWs(s, i) IN
    IF ~(j <= Len(s) /\ s[j].t = "str") THEN Bad
    ELSE LET c == SkipWs(s, j + 1) IN
         IF ~IsPunct(s, c, ":") THEN Bad
         ELSE LET r == ParseValue(s, c + 1) IN
              IF ~r.ok THEN Bad
              ELSE LET o == ObjPut(keys, items, Str(s[j].v), r.val)
                       k == SkipWs(s, r.pos)
                   IN IF IsPunct(s, k, ",") THEN ParseMembers(s, k + 1, o.keys, o.items)
                      ELSE IF IsPunct(s, k, "}") THEN Ok(JObj(o.keys, o.items), k + 1)
                      ELSE Bad

\* Mutant of JSONParse: the empty text is read as null instead of throwing.
JSONParseEmptyAsNull(s) ==
    LET r == ParseValue(s, 1) IN
    IF s = <<>> THEN Ok(JNull, 1)
    ELSE IF r.ok /\ SkipWs(s, r.pos) > Len(s) THEN r ELSE Bad

\* JSON.parse(s): ok = FALSE stands for the SyntaxError it throws
JSONParse(s) ==
    LET r == ParseValue(s, 1) IN
    IF r.ok /\ SkipWs(s, r.pos) > Len(s) THEN r ELSE Bad

\* ---------------------------------------------------------------- worker outputs
\* What a worker may write to stdout in transcription mode.
HelloJson ==
    <<P("{"), S("success"), P(":"), KW("true"), P(","), S("text"), P(":"), S("hello"),
      P(","), S("backend"), P(":"), S("moonshine"), P(","), S("model"), P(":"),
      S("tiny"), P("}")>>
ErrorJson ==
    <<P("{"), S("success"), P(":"), KW("false"), P(","), S("error"), P(":"),
      S("no speech"), P("}")>>
TextOnlyJson == <<P("{"), S("text"), P(":"), S("hi"), P("}")>>

TranscribeOutputs ==
    { <<>>,
      HelloJson \o <<WS>>,
      <<NBSP>> \o ErrorJson,
      <<Txt("Traceback")>>,
      <<WS, Txt("garbage"), WS>>,
      <<WS>>,
      <<KW("null")>>,
      <<N("5")>>,
      <<P("["), P("]")>>,
      TextOnlyJson,
      <<P("{"), S("success"), P(":"), KW("true")>>,
      <<KW("null"), Txt("x")>> }

StderrOutputs == { <<>>, <<Txt("mic not found")>>, <<Txt("warn"), WS>> }

\* What a worker may write to stdout in discovery mode.
Backends(v) == <<P("{"), S("available_backends"), P(":")>> \o v \o <<P("}")>>

ListOutputs ==
    { <<>>,
      Backends(<<P("["), S("moonshine"), P(","), S("whisper"), P("]")>>) \o <<WS>>,
      Backends(<<P("["), S("whisper"), P(","), S("whisper"), P("]")>>),
      Backends(<<P("["), P("]")>>),
      Backends(<<S("moonshine")>>),
      Backends(<<S("")>>),
      Backends(<<N("5")>>),
      Backends(<<P("{"), P("}")>>),
      Backends(<<P("["), N("1"), P("]")>>),
      <<P("{"), P("}")>>,
      <<KW("null")>>,
      <<Txt("usage: stt.py")>> }

InterpreterPaths == { Str("python3"), Str("/no/such/python"), Str("") }

\* ---------------------------------------------------------------- child_process
\* The code argument of the close event: a number, or null after a signal kill.
CodeNull == [isNull |-> TRUE, n |-> 0]
CodeOf(n) == [isNull |-> FALSE, n |-> n]
ExitStatuses == {CodeNull} \cup {CodeOf(n) : n \in 0..MaxExitCode}

\* `${code}`
CodeToString(code) == IF code.isNull THEN <<Txt("null")>> ELSE IntToString(code.n)

\* Errors a failed spawn reports through the error event (negative errno).
SpawnErrors == { [errno |-> -2, name |-> "ENOENT"], [errno |-> -13, name |-> "EACCES"] }
SpawnErrorMessage(file, e) == <<Txt("spawn ")>> \o file \o <<Txt(" "), Txt(e.name)>>

\* spawn(file, args, options): "ok" a child runs; "error" the child object is
\* returned and emits error; "throw" spawn throws synchronously (always for an
\* empty file name, ERR_INVALID_ARG_VALUE).
\* No worker runs from an interpreter path that does not exist.
SpawnOutcomes(file) ==
    IF file = <<>> THEN {"throw"}
    ELSE IF file = Str("/no/such/python") THEN {"error", "throw"}
    ELSE {"ok", "error", "throw"}
SpawnThrown(file) ==
    IF file = <<>> THEN JError(<<Txt("The argument 'file' cannot be empty")>>)
    ELSE JError(<<Txt("spawn E2BIG")>>)

\* pendOut, pendErr: what the worker has yet to write; wroteOut, wroteErr: what
\* it has written; pipeErr: how much of stderr sits unread in the pipe;
\* flowing: the streams with a data listener.
NoChild ==
    [st |-> "none", pendOut |-> <<>>, pendErr |-> <<>>, exitCode |-> CodeNull,
     errno |-> 0, message |-> <<>>, wroteOut |-> <<>>, wroteErr |-> <<>>,
     pipeErr |-> 0, flowing |-> {}]

\* ---------------------------------------------------------------- promises
Pending == [state |-> "pending", value |-> JUndefined]

\* Mutant of Resolve: a later settlement replaces an earlier one.
ResolveOverwrite(p, v) == [state |-> "fulfilled", value |-> v]

\* resolve(v) of a promise executor: only the first settlement counts
Resolve(p, v) == IF p.state = "pending" THEN [state |-> "fulfilled", value |-> v] ELSE p

\* an exception thrown inside the executor rejects the promise
Reject(p, e) == IF p.state = "pending" THEN [state |-> "rejected", value |-> e] ELSE p

\* ---------------------------------------------------------------- stt.ts handlers
Failure(msg) == JObj(<<Str("success"), Str("error")>>, <<JFalse, JStr(msg)>>)

\* Mutant of transcribeOnClose: stderr is dropped from the abnormal-exit message.
transcribeOnCloseNoStderr(code, out, err) ==
    IF code # CodeOf(0) /\ out = <<>>
    THEN Failure(<<Txt("Process exited with code ")>> \o CodeToString(code))
    ELSE LET r == JSONParse(Trim(out)) IN
         IF r.ok THEN r.val
         ELSE Failure(<<Txt("Failed to parse output: ")>> \o out)

\* Mutant of transcribeOnClose: a non-zero exit fails whatever stdout holds.
transcribeOnCloseExitFirst(code, out, err) ==
    IF code # CodeOf(0)
    THEN Failure(IF err # <<>> THEN err
                 ELSE <<Txt("Process exited with code ")>> \o CodeToString(code))
    ELSE LET r == JSONParse(Trim(out)) IN
         IF r.ok THEN r.val
         ELSE Failure(<<Txt("Failed to parse output: ")>> \o out)

\* Mutant of transcribeOnClose: the parse-failure message quotes the trimmed text.
transcribeOnCloseTrimmedMessage(code, out, err) ==
    IF code # CodeOf(0) /\ out = <<>>
    THEN Failure(IF err # <<>> THEN err
                 ELSE <<Txt("Process exited with code ")>> \o CodeToString(code))
    ELSE LET r == JSONParse(Trim(out)) IN
         IF r.ok THEN r.val
         ELSE Failure(<<Txt("Failed to parse output: ")>> \o Trim(out))

\* process.on("close", (code) => ...) of transcribe: the value it resolves
transcribeOnClose(code, out, err) ==
    IF code # CodeOf(0) /\ out = <<>>
    THEN Failure(IF err # <<>> THEN err
                 ELSE <<Txt("Process exited with code ")>> \o CodeToString(code))
    ELSE LET r == JSONParse(Trim(out)) IN
         IF r.ok THEN r.val
         ELSE Failure(<<Txt("Failed to parse output: ")>> \o out)

\* process.on("error", (err) => ...) of transcribe
transcribeOnError(message) == Failure(<<Txt("Failed to start STT process: ")>> \o message)

RECURSIVE Dedup(_)
Dedup(items) ==
    IF items = <<>> THEN <<>>
    ELSE LET init == Dedup(SubSeq(items, 1, Len(items) - 1))
             last == items[Len(items)]
         IN IF \E i \in 1..Len(init) : init[i] = last THEN init ELSE Append(init, last)

\* Mutant of listBackendsOnClose: repeated backends are dropped.
listBackendsOnCloseDedup(out) ==
    LET r == JSONParse(Trim(out)) IN
    IF ~r.ok THEN JArr(<<>>)
    ELSE IF r.val.k = "null" THEN JArr(<<>>)
    ELSE LET f == Get(r.val, Str("available_backends")) IN
         IF Truthy(f) THEN (IF f.k = "arr" THEN JArr(Dedup(f.items)) ELSE f)
         ELSE JArr(<<>>)

\* process.on("close", () => ...) of listBackends
listBackendsOnClose(out) ==
    LET r == JSONParse(Trim(out)) IN
    IF ~r.ok THEN JArr(<<>>)
    ELSE IF r.val.k = "null" THEN JArr(<<>>)
    ELSE LET f == Get(r.val, Str("available_backends")) IN
         IF Truthy(f) THEN f ELSE JArr(<<>>)

\* process.on("error", () => ...) of listBackends
listBackendsOnError == JArr(<<>>)

\* ---------------------------------------------------------------- configuration
BackendKey == Str("backend")
ModelKey == Str("model")
LanguageKey == Str("language")
MaxDurationKey == Str("maxDuration")
PythonPathKey == Str("pythonPath")
ScriptPathKey == Str("scriptPath")

\* A number value carries its decimal text; NaN is the one non-integer needed.
JInt(n) == JV("num", IntToString(n), <<>>, <<>>)
JNaN == JV("num", <<Txt("NaN")>>, <<>>, <<>>)

\* Number.prototype.toString
NumberToString(v) == v.s

DefaultMaxDuration == 30

DEFAULT_CONFIG ==
    JObj(<<BackendKey, ModelKey, LanguageKey, MaxDurationKey, PythonPathKey, ScriptPathKey>>,
         <<JStr(Str("auto")), JStr(Str("tiny")), JStr(Str("en")), JInt(DefaultMaxDuration),
           JStr(Str("python3")), JStr(Str(""))>>)

\* { ...a, ...b }: b's own properties are put over a's, in b's order
RECURSIVE SpreadInto(_, _, _)
SpreadInto(acc, b, i) ==
    IF i > Len(b.keys) THEN acc
    ELSE LET o == ObjPut(acc.keys, acc.items, b.keys[i], b.items[i])
         IN SpreadInto(JObj(o.keys, o.items), b, i + 1)

Spread(a, b) == SpreadInto(a, b, 1)

\* Paths are sequences of "/name" atoms.
FileURLToPath(url) == IF url # <<>> /\ Head(url) = Txt("file://") THEN Tail(url) ELSE url
Dirname(path) == SubSeq(path, 1, Len(path) - 1)

\* path.join: concatenates and normalises, a "/.." atom removes the one before it
RECURSIVE Normalize(_, _)
Normalize(done, rest) ==
    IF rest = <<>> THEN done
    ELSE IF Head(rest) = Txt("/..")
         THEN Normalize(SubSeq(done, 1, Len(done) - 1), Tail(rest))
         ELSE Normalize(Append(done, Head(rest)), Tail(rest))

Join(dir, segments) == Normalize(<<>>, dir \o segments)

\* The process environment: working directory, the module's URL, environment variables.
DefaultEnv ==
    [cwd |-> <<Txt("/home"), Txt("/user")>>,
     moduleUrl |-> <<Txt("file://"), Txt("/pkg"), Txt("/dist"), Txt("/index.js")>>,
     vars |-> JObj(<<>>, <<>>)]

\* Mutant of getScriptPath: the script is looked up under the working directory.
getScriptPathFromCwd(e) == Join(e.cwd, <<Txt("/scripts"), Txt("/stt.py")>>)

getScriptPath(e) ==
    Join(Dirname(FileURLToPath(e.moduleUrl)), <<Txt("/.."), Txt("/scripts"), Txt("/stt.py")>>)

\* Mutant of mergedConfigOf: the defaults are spread over the caller's values.
mergedConfigDefaultsWin(config) == Spread(config, DEFAULT_CONFIG)

\* const mergedConfig = { ...DEFAULT_CONFIG, ...config }
mergedConfigOf(config) == Spread(DEFAULT_CONFIG, config)

\* const scriptPath = mergedConfig.scriptPath || getScriptPath()
scriptPathOf(merged, e) ==
    IF Truthy(Get(merged, ScriptPathKey)) THEN Get(merged, ScriptPathKey).s
    ELSE getScriptPath(e)

\* Mutant of transcribeArgs: the language and duration flags change places.
transcribeArgsReordered(merged, e) ==
    <<scriptPathOf(merged, e),
      Str("--backend"), Get(merged, BackendKey).s,
      Str("--model"), Get(merged, ModelKey).s,
      Str("--duration"), NumberToString(Get(merged, MaxDurationKey)),
      Str("--language"), Get(merged, LanguageKey).s>>

\* The argument list transcribe passes to spawn.
transcribeArgs(merged, e) ==
    <<scriptPathOf(merged, e),
      Str("--backend"), Get(merged, BackendKey).s,
      Str("--model"), Get(merged, ModelKey).s,
      Str("--language"), Get(merged, LanguageKey).s,
      Str("--duration"), NumberToString(Get(merged, MaxDurationKey))>>

\* The argument list listBackends passes to spawn.
listBackendsArgs(e) == <<getScriptPath(e), Str("--list-backends")>>

\* Mutant of spawnCalls: a second spawn follows the first.
spawnCallsTwice(file, args) ==
    <<[file |-> file, args |-> args], [file |-> file, args |-> args]>>

\* The spawn calls one executor makes.
spawnCalls(file, args) == <<[file |-> file, args |-> args]>>

\* stdio: ["inherit", "pipe", "pipe"] and the data listeners each function attaches
Consumers(k) == IF k = "transcribe" THEN {"stdout", "stderr"} ELSE {"stdout"}

\* ---------------------------------------------------------------- plugin
\* a || b   and   a ?? b
Or(a, b) == IF Truthy(a) THEN a ELSE b
Coalesce(a, b) == IF a.k \in {"undefined", "null"} THEN b ELSE a

DigitValue(a) ==
    CASE a = Txt("0") -> 0 [] a = Txt("1") -> 1 [] a = Txt("2") -> 2 [] a = Txt("3") -> 3
      [] a = Txt("4") -> 4 [] a = Txt("5") -> 5 [] a = Txt("6") -> 6 [] a = Txt("7") -> 7
      [] a = Txt("8") -> 8 [] a = Txt("9") -> 9 [] OTHER -> -1

\* The longest prefix of decimal digits, as a number; NaN when there is none.
RECURSIVE ParseDigits(_, _, _, _)
ParseDigits(s, acc, seen, sign) ==
    IF s = <<>> \/ DigitValue(Head(s)) < 0
    THEN (IF seen THEN JInt(sign * acc) ELSE JNaN)
    ELSE ParseDigits(Tail(s), acc * 10 + DigitValue(Head(s)), TRUE, sign)

\* parseInt(s, 10): leading whitespace and one sign are skipped
ParseInt(s) ==
    LET t == TrimStart(s) IN
    IF t # <<>> /\ Head(t) = Txt("-") THEN ParseDigits(Tail(t), 0, FALSE, -1)
    ELSE IF t # <<>> /\ Head(t) = Txt("+") THEN ParseDigits(Tail(t), 0, FALSE, 1)
    ELSE ParseDigits(t, 0, FALSE, 1)

STT_BACKEND == Str("STT_BACKEND")
STT_MODEL == Str("STT_MODEL")
STT_LANGUAGE == Str("STT_LANGUAGE")
STT_MAX_DURATION == Str("STT_MAX_DURATION")
STT_PYTHON_PATH == Str("STT_PYTHON_PATH")

PluginDefaultMaxDuration == 30

\* The configuration the plugin derives from the environment when it loads.
pluginConfig(e) ==
    JObj(<<BackendKey, ModelKey, LanguageKey, MaxDurationKey, PythonPathKey>>,
         <<Or(Get(e.vars, STT_BACKEND), JStr(Str("auto"))),
           Or(Get(e.vars, STT_MODEL), JStr(Str("tiny"))),
           Or(Get(e.vars, STT_LANGUAGE), JStr(Str("en"))),
           ParseInt(Or(Get(e.vars, STT_MAX_DURATION),
                       JStr(IntToString(PluginDefaultMaxDuration))).s),
           Or(Get(e.vars, STT_PYTHON_PATH), JStr(Str("python3")))>>)

ArgMaxDuration == Str("max_duration")
ArgBackend == Str("backend")
ArgModel == Str("model")
ArgLanguage == Str("language")

\* Mutant of voiceInputConfig: the plugin's configuration wins over the arguments.
voiceInputConfigEnvFirst(cfg, args) ==
    Spread(cfg,
           JObj(<<MaxDurationKey, BackendKey, ModelKey, LanguageKey>>,
                <<Coalesce(Get(cfg, MaxDurationKey), Get(args, ArgMaxDuration)),
                  Coalesce(Get(cfg, BackendKey), Get(args, ArgBackend)),
                  Coalesce(Get(cfg, ModelKey), Get(args, ArgModel)),
                  Coalesce(Get(cfg, LanguageKey), Get(args, ArgLanguage))>>))

\* The object voice_input.execute passes to transcribe.
voiceInputConfig(cfg, args) ==
    Spread(cfg,
           JObj(<<MaxDurationKey, BackendKey, ModelKey, LanguageKey>>,
                <<Coalesce(Get(args, ArgMaxDuration), Get(cfg, MaxDurationKey)),
                  Coalesce(Get(args, ArgBackend), Get(cfg, BackendKey)),
                  Coalesce(Get(args, ArgModel), Get(cfg, ModelKey)),
                  Coalesce(Get(args, ArgLanguage), Get(cfg, LanguageKey))>>))

NoCall == [config |-> JUndefined, mergedConfig |-> JUndefined, toolArgs |-> JUndefined]

\* ---------------------------------------------------------------- state
VARIABLES
    kind,      \* per call: "none" (not made yet), "transcribe" or "listBackends"
    child,     \* per call: the spawned ChildProcess and what the worker has yet to write
    stdout,    \* per call: the stdout accumulator of the call's closure
    stderr,    \* per call: the stderr accumulator of the call's closure
    promise,   \* per call: the promise returned to the caller
    env,       \* the process environment the module runs in
    call,      \* per call: the argument given and the merged configuration
    spawned    \* per call: the spawn calls made, each with its file and argument list

vars == <<kind, child, stdout, stderr, promise, env, call, spawned>>

InitCalls ==
    /\ kind = [c \in AllCalls |-> "none"]
    /\ child = [c \in AllCalls |-> NoChild]
    /\ stdout = [c \in AllCalls |-> <<>>]
    /\ stderr = [c \in AllCalls |-> <<>>]
    /\ promise = [c \in AllCalls |-> Pending]
    /\ call = [c \in AllCalls |-> NoCall]
    /\ spawned = [c \in AllCalls |-> <<>>]

Init == InitCalls /\ env = DefaultEnv

\* Mutant of stdoutAfterData: the chunk replaces the accumulator.
stdoutReplaced(c, data) == [stdout EXCEPT ![c] = data]

\* Mutant of stdoutAfterData: one accumulator is shared by all calls.
stdoutShared(c, data) == [d \in DOMAIN stdout |-> stdout[d] \o data]

\* stdout += data.toString()
stdoutAfterData(c, data) == [stdout EXCEPT ![c] = @ \o data]

\* stderr += data.toString()
stderrAfterData(c, data) == [stderr EXCEPT ![c] = @ \o data]

\* The behaviours of a worker: what it writes to stdout and to stderr.
Workers(outs, errs) == {[out |-> o, err |-> e] : o \in outs, e \in errs}

\* The executor body up to the handler registrations, for either function.
Spawn(c, k, file, args, workers) ==
    /\ kind[c] = "none"
    /\ kind' = [kind EXCEPT ![c] = k]
    /\ spawned' = [spawned EXCEPT ![c] = @ \o spawnCalls(file, args)]
    /\ UNCHANGED <<stdout, stderr, env>>
    /\ \E o \in SpawnOutcomes(file) :
         \/ /\ o = "throw"
            /\ child' = [child EXCEPT ![c].st = "threw"]
            /\ promise' = [promise EXCEPT ![c] = Reject(@, SpawnThrown(file))]
         \/ /\ o = "error"
            /\ \E e \in SpawnErrors :
                 child' = [child EXCEPT ![c] =
                             [NoChild EXCEPT !.st = "failing", !.errno = e.errno,
                                             !.message = SpawnErrorMessage(file, e)]]
            /\ UNCHANGED promise
         \/ /\ o = "ok"
            /\ \E w \in workers :
                 child' = [child EXCEPT ![c] =
                             [NoChild EXCEPT !.st = "running", !.pendOut = w.out,
                                             !.pendErr = w.err, !.flowing = Consumers(k)]]
            /\ UNCHANGED promise

\* transcribe(config) with the worker's behaviour drawn from workers
transcribeCall(c, config, toolArgs, workers) ==
    LET merged == mergedConfigOf(config) IN
    /\ Spawn(c, "transcribe", Get(merged, PythonPathKey).s, transcribeArgs(merged, env),
             workers)
    /\ call' = [call EXCEPT ![c] =
                  [config |-> config, mergedConfig |-> merged, toolArgs |-> toolArgs]]

\* listBackends(pythonPath) with the worker's behaviour drawn from workers
listBackendsCall(c, pythonPath, workers) ==
    /\ Spawn(c, "listBackends", pythonPath, listBackendsArgs(env), workers)
    /\ call' = [call EXCEPT ![c] = [NoCall EXCEPT !.config = JStr(pythonPath)]]

transcribe(c) ==
    \E file \in InterpreterPaths :
        transcribeCall(c, JObj(<<PythonPathKey>>, <<JStr(file)>>), JUndefined,
                       Workers(TranscribeOutputs, StderrOutputs))

listBackends(c) ==
    \E file \in InterpreterPaths : listBackendsCall(c, file, Workers(ListOutputs, {<<>>}))

\* process.stdout.on("data", ...): one chunk of the worker's stdout arrives
StdoutData(c) ==
    /\ kind[c] \in {"transcribe", "listBackends"}
    /\ child[c].st = "running"
    /\ \E n \in 1..Len(child[c].pendOut) :
         /\ stdout' = stdoutAfterData(c, SubSeq(child[c].pendOut, 1, n))
         /\ child' = [child EXCEPT ![c].pendOut = SubSeq(@, n + 1, Len(@)),
                                   ![c].wroteOut = @ \o SubSeq(child[c].pendOut, 1, n)]
    /\ UNCHANGED <<kind, stderr, promise, env, call, spawned>>

\* process.stderr.on("data", ...): transcribe only
StderrData(c) ==
    /\ kind[c] = "transcribe"
    /\ child[c].st = "running"
    /\ \E n \in 1..Len(child[c].pendErr) :
         /\ stderr' = stderrAfterData(c, SubSeq(child[c].pendErr, 1, n))
         /\ child' = [child EXCEPT ![c].pendErr = SubSeq(@, n + 1, Len(@)),
                                   ![c].wroteErr = @ \o SubSeq(child[c].pendErr, 1, n)]
    /\ UNCHANGED <<kind, stdout, promise, env, call, spawned>>

\* The worker of listBackends writes to stderr: no listener reads the pipe, so
\* the data stays in the pipe and the write succeeds only while it has room.
StderrUnread(c) ==
    /\ kind[c] = "listBackends"
    /\ child[c].st = "running"
    /\ \E n \in 1..Len(child[c].pendErr) :
         /\ child[c].pipeErr + n <= PipeCapacity
         /\ child' = [child EXCEPT ![c].pendErr = SubSeq(@, n + 1, Len(@)),
                                   ![c].wroteErr = @ \o SubSeq(child[c].pendErr, 1, n),
                                   ![c].pipeErr = @ + n]
    /\ UNCHANGED <<kind, stdout, stderr, promise, env, call, spawned>>

\* Mutant of CloseCodes: the handler listens to exit, which may come before
\* the streams have delivered everything.
CloseCodesOnExit(ch) ==
    IF ch.st = "errored" THEN {CodeOf(ch.errno)}
    ELSE IF ch.st = "running" THEN ExitStatuses
    ELSE {}

\* The close event: after the worker has ended and its streams are drained,
\* or after the error event of a failed spawn (code = the negative errno).
CloseCodes(ch) ==
    IF ch.st = "errored" THEN {CodeOf(ch.errno)}
    ELSE IF ch.st = "running" /\ ch.pendOut = <<>> /\ ch.pendErr = <<>> THEN ExitStatuses
    ELSE {}

transcribeClose(c) ==
    /\ kind[c] = "transcribe"
    /\ \E code \in CloseCodes(child[c]) :
         /\ child' = [child EXCEPT ![c].st = "closed", ![c].exitCode = code]
         /\ promise' = [promise EXCEPT ![c] =
                          Resolve(@, transcribeOnClose(code, stdout[c], stderr[c]))]
    /\ UNCHANGED <<kind, stdout, stderr, env, call, spawned>>

listBackendsClose(c) ==
    /\ kind[c] = "listBackends"
    /\ \E code \in CloseCodes(child[c]) :
         /\ child' = [child EXCEPT ![c].st = "closed", ![c].exitCode = code]
         /\ promise' = [promise EXCEPT ![c] = Resolve(@, listBackendsOnClose(stdout[c]))]
    /\ UNCHANGED <<kind, stdout, stderr, env, call, spawned>>

\* The error event of a failed spawn.
transcribeError(c) ==
    /\ kind[c] = "transcribe"
    /\ child[c].st = "failing"
    /\ child' = [child EXCEPT ![c].st = "errored"]
    /\ promise' = [promise EXCEPT ![c] = Resolve(@, transcribeOnError(child[c].message))]
    /\ UNCHANGED <<kind, stdout, stderr, env, call, spawned>>

listBackendsError(c) ==
    /\ kind[c] = "listBackends"
    /\ child[c].st = "failing"
    /\ child' = [child EXCEPT ![c].st = "errored"]
    /\ promise' = [promise EXCEPT ![c] = Resolve(@, listBackendsOnError)]
    /\ UNCHANGED <<kind, stdout, stderr, env, call, spawned>>

Next ==
    \E c \in Calls :
        \/ transcribe(c)
        \/ listBackends(c)
        \/ StdoutData(c)
        \/ StderrData(c)
        \/ transcribeClose(c)
        \/ listBackendsClose(c)
        \/ transcribeError(c)
        \/ listBackendsError(c)

Spec == Init /\ [][Next]_vars

\* ---------------------------------------------------------------- configured calls
\* The configurations, environments and tool arguments explored.
ConfigOf(keys) ==
    JObj(keys,
         [i \in 1..Len(keys) |->
            CASE keys[i] = BackendKey -> JStr(Str("whisper"))
              [] keys[i] = ModelKey -> JStr(Str("base"))
              [] keys[i] = LanguageKey -> JStr(Str("vi"))
              [] keys[i] = MaxDurationKey -> JInt(5)
              [] keys[i] = PythonPathKey -> JStr(Str("/usr/bin/python3"))
              [] keys[i] = ScriptPathKey -> JStr(Str("/opt/stt.py"))])

Configs ==
    { ConfigOf(<<>>),
      ConfigOf(<<ModelKey>>),
      ConfigOf(<<BackendKey, MaxDurationKey>>),
      ConfigOf(<<MaxDurationKey, BackendKey>>),
      ConfigOf(<<LanguageKey, PythonPathKey>>),
      ConfigOf(<<ScriptPathKey>>),
      ConfigOf(<<ScriptPathKey, PythonPathKey, MaxDurationKey, LanguageKey, ModelKey,
                 BackendKey>>),
      JObj(<<ScriptPathKey, ModelKey>>, <<JStr(Str("")), JStr(Str("base"))>>),
      JObj(<<PythonPathKey>>, <<JStr(Str("/no/such/python"))>>) }

EnvVars ==
    { JObj(<<>>, <<>>),
      JObj(<<STT_BACKEND, STT_MODEL, STT_LANGUAGE, STT_MAX_DURATION, STT_PYTHON_PATH>>,
           <<JStr(Str("faster-whisper")), JStr(Str("small")), JStr(Str("fr")),
             JStr(IntToString(45)), JStr(Str("/venv/bin/python"))>>),
      JObj(<<STT_MODEL, STT_MAX_DURATION>>, <<JStr(Str("")), JStr(<<Txt("abc")>>)>>),
      JObj(<<STT_MAX_DURATION, STT_BACKEND>>,
           <<JStr(IntToString(10) \o <<Txt("s")>>), JStr(Str("moonshine"))>>) }

Locations ==
    { [cwd |-> <<Txt("/home"), Txt("/user")>>,
       moduleUrl |-> <<Txt("file://"), Txt("/pkg"), Txt("/dist"), Txt("/index.js")>>],
      [cwd |-> <<Txt("/pkg"), Txt("/dist")>>,
       moduleUrl |-> <<Txt("file://"), Txt("/pkg"), Txt("/dist"), Txt("/index.js")>>],
      [cwd |-> <<Txt("/home"), Txt("/user")>>,
       moduleUrl |-> <<Txt("file://"), Txt("/opt"), Txt("/node_modules"), Txt("/stt"),
                       Txt("/dist"), Txt("/index.js")>>] }

Envs ==
    { [cwd |-> l.cwd, moduleUrl |-> l.moduleUrl, vars |-> v] :
        l \in Locations, v \in EnvVars }

ToolArgs ==
    { JObj(<<>>, <<>>),
      JObj(<<ArgModel>>, <<JStr(Str("medium"))>>),
      JObj(<<ArgMaxDuration>>, <<JInt(7)>>),
      JObj(<<ArgLanguage, ArgBackend>>, <<JStr(Str("de")), JStr(Str(""))>>),
      JObj(<<ArgBackend, ArgModel, ArgLanguage, ArgMaxDuration>>,
           <<JStr(Str("whisper")), JStr(Str("large")), JStr(Str("ja")), JInt(0)>>) }

ConfigOutputs == {TextOnlyJson}
ConfigErrs == {<<>>, <<Txt("warn")>>}

InitConfig == InitCalls /\ env \in Envs

\* Configuration is resolved per call from the environment and the argument
\* alone, so each behaviour of SpecConfig follows one call.
OnlyCall(c) == \A d \in AllCalls \ {c} : kind[d] = "none"

\* transcribe(config) called directly with a partial configuration
transcribeConfigured(c) ==
    /\ OnlyCall(c)
    /\ \E config \in Configs :
         transcribeCall(c, config, JUndefined, Workers(ConfigOutputs, ConfigErrs))

\* voice_input.execute(args)
voice_input(c) ==
    /\ OnlyCall(c)
    /\ \E args \in ToolArgs :
         transcribeCall(c, voiceInputConfig(pluginConfig(env), args), args,
                        Workers(ConfigOutputs, ConfigErrs))

\* const backends = await listBackends(config.pythonPath), when the plugin loads
pluginListBackends(c) ==
    /\ OnlyCall(c)
    /\ listBackendsCall(c, Get(pluginConfig(env), PythonPathKey).s,
                        Workers({<<>>}, {<<>>}))

NextConfig ==
    \E c \in Calls :
        \/ transcribeConfigured(c)
        \/ voice_input(c)
        \/ pluginListBackends(c)
        \/ StdoutData(c)
        \/ StderrData(c)
        \/ transcribeClose(c)
        \/ listBackendsClose(c)
        \/ transcribeError(c)
        \/ listBackendsError(c)

SpecConfig == InitConfig /\ [][NextConfig]_vars

\* ---------------------------------------------------------------- concurrent calls
\* Workers of calls in flight at once.  In discovery mode a worker may also
\* write warnings to stderr: a few, or more than the pipe holds.
ConcWorkers ==
    { [out |-> <<>>, err |-> <<Txt("mic not found")>>],
      [out |-> <<Txt("Traceback")>>, err |-> <<>>] }

ConcListWorkers ==
    { [out |-> Backends(<<P("["), S("whisper"), P("]")>>), err |-> <<Txt("warning")>>],
      [out |-> <<Txt("usage: stt.py")>>, err |-> <<>>],
      [out |-> <<Txt("usage: stt.py")>>,
       err |-> [i \in 1..(PipeCapacity + 1) |-> Txt("warning")]] }

transcribeConcurrent(c) == transcribeCall(c, JObj(<<>>, <<>>), JUndefined, ConcWorkers)

listBackendsConcurrent(c) == listBackendsCall(c, Str("python3"), ConcListWorkers)

NextConc ==
    \E c \in ConcurrentCalls :
        \/ transcribeConcurrent(c)
        \/ listBackendsConcurrent(c)
        \/ StdoutData(c)
        \/ StderrData(c)
        \/ StderrUnread(c)
        \/ transcribeClose(c)
        \/ listBackendsClose(c)
        \/ transcribeError(c)
        \/ listBackendsError(c)

SpecConc == Init /\ [][NextConc]_vars

\* ---------------------------------------------------------------- result shapes
SuccessKey == Str("success")
TextKey == Str("text")
ErrorKey == Str("error")
BackendsKey == Str("available_backends")

\* Success: success true, with a text.  Failure: success false, with a message.
IsSuccess(v) == v.k = "obj" /\ Get(v, SuccessKey) = JTrue /\ Get(v, TextKey).k = "str"
IsFailure(v) == v.k = "obj" /\ Get(v, SuccessKey) = JFalse /\ Get(v, ErrorKey).k = "str"
ErrorOf(v) == Get(v, ErrorKey).s
IsStringList(v) == v.k = "arr" /\ \A i \in 1..Len(v.items) : v.items[i].k = "str"

\* The worker ran and the close event has been handled.
Ran(c) == child[c].st = "closed" /\ child[c].errno = 0
\* The spawn failed and the error event has been handled.
SpawnFailed(c) == child[c].st \in {"errored", "closed"} /\ child[c].errno # 0
Fulfilled(c) == promise[c].state = "fulfilled"
Value(c) == promise[c].value

\* ---------------------------------------------------------------- claims

\* C1: transcribe never rejects and never throws: whatever the spawn call and
\* the worker do, the returned promise is never rejected.
C1_TranscribeNeverRejects ==
    \A c \in Calls : kind[c] = "transcribe" => promise[c].state # "rejected"

\* C2: when the spawn fails, transcribe resolves to a Failure whose message is
\* "Failed to start STT process: " followed by the spawn error's message, and
\* the later close event (with its error code) does not change that.
C2_SpawnFailureIsStartFailure ==
    \A c \in Calls :
        (kind[c] = "transcribe" /\ SpawnFailed(c)) =>
            /\ Fulfilled(c)
            /\ IsFailure(Value(c))
            /\ ErrorOf(Value(c)) =
                 <<Txt("Failed to start STT process: ")>> \o child[c].message

C2_Witness ==
    \E c \in Calls :
        /\ kind[c] = "transcribe"
        /\ child[c].st = "closed"
        /\ child[c].exitCode = CodeOf(-2)
        /\ Includes(ErrorOf(Value(c)), <<Txt("ENOENT")>>)

\* C3: a worker that ends with a non-zero exit code and empty stdout gives a
\* Failure whose error is stderr when stderr is non-empty, and otherwise a
\* message naming the exit code; exit 1 with stderr "mic not found" gives
\* Failure("mic not found").
C3_NonZeroExitEmptyStdout ==
    \A c \in Calls :
        (/\ kind[c] = "transcribe"
         /\ Ran(c)
         /\ ~child[c].exitCode.isNull
         /\ child[c].exitCode.n # 0
         /\ stdout[c] = <<>>) =>
            /\ Fulfilled(c)
            /\ IsFailure(Value(c))
            /\ stderr[c] # <<>> => ErrorOf(Value(c)) = stderr[c]
            /\ stderr[c] = <<>> =>
                 Includes(ErrorOf(Value(c)), IntToString(child[c].exitCode.n))
            /\ (stderr[c] = <<Txt("mic not found")>> /\ child[c].exitCode.n = 1) =>
                 Value(c) = JObj(<<SuccessKey, ErrorKey>>,
                                 <<JFalse, JStr(<<Txt("mic not found")>>)>>)

C3_Witness ==
    \E c \in Calls :
        /\ kind[c] = "transcribe"
        /\ Ran(c)
        /\ child[c].exitCode = CodeOf(1)
        /\ stdout[c] = <<>>
        /\ stderr[c] = <<Txt("mic not found")>>
        /\ ErrorOf(Value(c)) = <<Txt("mic not found")>>

\* C4: with non-empty stdout the result is what parsing the trimmed stdout
\* gives, whatever the exit status and stderr are; the example object parses
\* to Success("hello", "moonshine", "tiny") with exactly the fields written.
HelloResult ==
    JObj(<<SuccessKey, TextKey, Str("backend"), Str("model")>>,
         <<JTrue, JStr(Str("hello")), JStr(Str("moonshine")), JStr(Str("tiny"))>>)

C4_OutputTrumpsExitStatus ==
    \A c \in Calls :
        (kind[c] = "transcribe" /\ Ran(c) /\ stdout[c] # <<>>) =>
            /\ Fulfilled(c)
            /\ JSONParse(Trim(stdout[c])).ok => Value(c) = JSONParse(Trim(stdout[c])).val
            /\ ~JSONParse(Trim(stdout[c])).ok => IsFailure(Value(c))
            /\ Trim(stdout[c]) = HelloJson => Value(c) = HelloResult

C4_Witness ==
    \E c \in Calls :
        /\ kind[c] = "transcribe"
        /\ Ran(c)
        /\ child[c].exitCode = CodeOf(1)
        /\ stderr[c] # <<>>
        /\ Trim(stdout[c]) = HelloJson
        /\ IsSuccess(Value(c))

\* C5: non-empty stdout that does not parse gives a Failure whose message
\* contains the raw stdout text, for any exit code.
C5_ParseFailureQuotesRawStdout ==
    \A c \in Calls :
        (/\ kind[c] = "transcribe"
         /\ Ran(c)
         /\ stdout[c] # <<>>
         /\ ~JSONParse(Trim(stdout[c])).ok) =>
            /\ Fulfilled(c)
            /\ IsFailure(Value(c))
            /\ Includes(ErrorOf(Value(c)), stdout[c])

C5_Witness ==
    \E c \in Calls :
        /\ kind[c] = "transcribe"
        /\ Ran(c)
        /\ child[c].exitCode = CodeOf(2)
        /\ stdout[c] = <<WS, Txt("garbage"), WS>>
        /\ IsFailure(Value(c))

\* C6: exit code 0 with empty stdout gives a Failure (the parse-failure
\* message with nothing after it), neither a rejection nor a Success.
C6_ExitZeroEmptyStdout ==
    \A c \in Calls :
        (/\ kind[c] = "transcribe"
         /\ Ran(c)
         /\ child[c].exitCode = CodeOf(0)
         /\ stdout[c] = <<>>) =>
            /\ Fulfilled(c)
            /\ IsFailure(Value(c))
            /\ ~IsSuccess(Value(c))
            /\ ErrorOf(Value(c)) = <<Txt("Failed to parse output: ")>>

C6_Witness ==
    \E c \in Calls :
        /\ kind[c] = "transcribe"
        /\ Ran(c)
        /\ child[c].exitCode = CodeOf(0)
        /\ stdout[c] = <<>>
        /\ stderr[c] # <<>>
        /\ Fulfilled(c)

\* C7: every value transcribe resolves to is exactly one of Success and
\* Failure, for every worker stdout.
C7_ResultIsSuccessXorFailure ==
    \A c \in Calls :
        (kind[c] = "transcribe" /\ Fulfilled(c)) =>
            (IsSuccess(Value(c)) /\ ~IsFailure(Value(c)))
            \/ (IsFailure(Value(c)) /\ ~IsSuccess(Value(c)))

\* C8: listBackends never rejects, whatever the spawn call and the worker do,
\* and after a spawn error it has resolved to the empty list.
C8_ListBackendsNeverRejects ==
    \A c \in Calls :
        kind[c] = "listBackends" =>
            /\ promise[c].state # "rejected"
            /\ SpawnFailed(c) => (Fulfilled(c) /\ Value(c) = JArr(<<>>))

\* C9: on close listBackends returns the empty list when stdout does not
\* parse, has no available_backends field, or that field is not a list; what
\* it returns is always a list of strings.
C9_ListBackendsReturnsStringList ==
    \A c \in Calls :
        (kind[c] = "listBackends" /\ Fulfilled(c)) =>
            /\ IsStringList(Value(c))
            /\ (Ran(c) /\ ~JSONParse(Trim(stdout[c])).ok) => Value(c) = JArr(<<>>)
            /\ (/\ Ran(c)
                /\ JSONParse(Trim(stdout[c])).ok
                /\ Get(JSONParse(Trim(stdout[c])).val, BackendsKey).k # "arr") =>
                   Value(c) = JArr(<<>>)

\* C10: when the worker writes an object whose available_backends is a list,
\* listBackends returns that list: same elements, same order, duplicates
\* kept, for any exit code.
C10_ListPassedThrough ==
    \A c \in Calls :
        (kind[c] = "listBackends" /\ Ran(c)) =>
            /\ (/\ JSONParse(Trim(stdout[c])).ok
                /\ Get(JSONParse(Trim(stdout[c])).val, BackendsKey).k = "arr") =>
                   /\ Fulfilled(c)
                   /\ Value(c) = Get(JSONParse(Trim(stdout[c])).val, BackendsKey)
            /\ Trim(stdout[c]) =
                 Backends(<<P("["), S("moonshine"), P(","), S("whisper"), P("]")>>) =>
                   Value(c) = JArr(<<JStr(Str("moonshine")), JStr(Str("whisper"))>>)
            /\ Trim(stdout[c]) =
                 Backends(<<P("["), S("whisper"), P(","), S("whisper"), P("]")>>) =>
                   Value(c) = JArr(<<JStr(Str("whisper")), JStr(Str("whisper"))>>)

C10_Witness ==
    \E c \in Calls :
        /\ kind[c] = "listBackends"
        /\ Ran(c)
        /\ child[c].exitCode = CodeOf(1)
        /\ Value(c) = JArr(<<JStr(Str("whisper")), JStr(Str("whisper"))>>)

\* ---------------------------------------------------------------- configuration claims
\* C11: transcribe merges its argument over DEFAULT_CONFIG field by field: a
\* field the caller supplied has the caller's value, every other field has
\* its default, and the merged values are the ones the spawn uses; with
\* {model: "base"} the merged configuration is auto / base / en / 30 / python3.
C11_ShallowOverrideMerge ==
    \A c \in AllCalls :
        kind[c] = "transcribe" =>
            LET config == call[c].config
                merged == call[c].mergedConfig
            IN /\ \A i \in 1..Len(DEFAULT_CONFIG.keys) :
                    Get(merged, DEFAULT_CONFIG.keys[i]) =
                        IF HasKey(config, DEFAULT_CONFIG.keys[i])
                        THEN Get(config, DEFAULT_CONFIG.keys[i])
                        ELSE DEFAULT_CONFIG.items[i]
               /\ spawned[c][1].file = Get(merged, PythonPathKey).s
               /\ config = JObj(<<ModelKey>>, <<JStr(Str("base"))>>) =>
                    /\ Get(merged, BackendKey) = JStr(Str("auto"))
                    /\ Get(merged, ModelKey) = JStr(Str("base"))
                    /\ Get(merged, LanguageKey) = JStr(Str("en"))
                    /\ Get(merged, MaxDurationKey) = JInt(30)
                    /\ Get(merged, PythonPathKey) = JStr(Str("python3"))

C11_Witness ==
    \E c \in AllCalls :
        /\ kind[c] = "transcribe"
        /\ call[c].config = JObj(<<ModelKey>>, <<JStr(Str("base"))>>)
        /\ Get(call[c].mergedConfig, ModelKey) = JStr(Str("base"))
        /\ child[c].st = "closed"

\* C12: the one spawn of a transcribe call is given the merged interpreter
\* path and the nine arguments script path, --backend, backend, --model,
\* model, --language, language, --duration, duration in decimal digits, with
\* the merged values, whatever the key order of the caller's object.
C12_WorkerArgumentList ==
    \A c \in AllCalls :
        kind[c] = "transcribe" =>
            LET merged == call[c].mergedConfig
                args == spawned[c][1].args
            IN /\ spawned[c][1].file = Get(merged, PythonPathKey).s
               /\ Len(args) = 9
               /\ args[2] = Str("--backend") /\ args[3] = Get(merged, BackendKey).s
               /\ args[4] = Str("--model") /\ args[5] = Get(merged, ModelKey).s
               /\ args[6] = Str("--language") /\ args[7] = Get(merged, LanguageKey).s
               /\ args[8] = Str("--duration")
               /\ Get(merged, MaxDurationKey) = JInt(30) => args[9] = <<Txt("3"), Txt("0")>>
               /\ Get(merged, MaxDurationKey) = JInt(5) => args[9] = <<Txt("5")>>
               /\ Get(merged, MaxDurationKey) = JInt(45) => args[9] = <<Txt("4"), Txt("5")>>
               /\ call[c].config \in {ConfigOf(<<BackendKey, MaxDurationKey>>),
                                      ConfigOf(<<MaxDurationKey, BackendKey>>)} =>
                    SubSeq(args, 2, 9) =
                        <<Str("--backend"), Str("whisper"), Str("--model"), Str("tiny"),
                          Str("--language"), Str("en"), Str("--duration"), <<Txt("5")>>>>

C12_Witness ==
    \E c \in AllCalls :
        /\ kind[c] = "transcribe"
        /\ call[c].config = ConfigOf(<<MaxDurationKey, BackendKey>>)
        /\ spawned[c][1].args[3] = Str("whisper")
        /\ child[c].st = "running"

\* The calls made through the voice_input tool.
IsToolCall(c) == kind[c] = "transcribe" /\ call[c].toolArgs.k = "obj"

Given(args, key) == Get(args, key).k \notin {"undefined", "null"}

\* C13 as stated: each of backend, model and language is the tool argument
\* when one is given, else the environment variable when it is set, else the
\* default; maxDuration likewise, the variable's text being its decimal
\* digits; the interpreter is STT_PYTHON_PATH when set, else python3.
C13_ToolArgThenEnvThenDefault ==
    \A c \in AllCalls :
        IsToolCall(c) =>
            LET args == call[c].toolArgs
                merged == call[c].mergedConfig
                Pick(arg, var, def) ==
                    IF Given(args, arg) THEN Get(args, arg)
                    ELSE IF HasKey(env.vars, var) THEN Get(env.vars, var)
                    ELSE def
            IN /\ Get(merged, BackendKey) = Pick(ArgBackend, STT_BACKEND, JStr(Str("auto")))
               /\ Get(merged, ModelKey) = Pick(ArgModel, STT_MODEL, JStr(Str("tiny")))
               /\ Get(merged, LanguageKey) = Pick(ArgLanguage, STT_LANGUAGE, JStr(Str("en")))
               /\ Get(merged, MaxDurationKey).s =
                      Pick(ArgMaxDuration, STT_MAX_DURATION, JInt(30)).s
               /\ Get(merged, PythonPathKey) =
                      IF HasKey(env.vars, STT_PYTHON_PATH) THEN Get(env.vars, STT_PYTHON_PATH)
                      ELSE JStr(Str("python3"))

\* C13, amended: the environment variable counts only when it is set to a
\* non-empty text, and STT_MAX_DURATION is read as its leading decimal
\* integer: 45 for "45", 10 for "10s", NaN for "abc".
C13_ToolArgThenNonEmptyEnvThenDefault ==
    \A c \in AllCalls :
        IsToolCall(c) =>
            LET args == call[c].toolArgs
                merged == call[c].mergedConfig
                Set(var) == HasKey(env.vars, var) /\ Get(env.vars, var).s # <<>>
                Pick(arg, var, def) ==
                    IF Given(args, arg) THEN Get(args, arg)
                    ELSE IF Set(var) THEN Get(env.vars, var)
                    ELSE def
                text == Get(env.vars, STT_MAX_DURATION).s
            IN /\ Get(merged, BackendKey) = Pick(ArgBackend, STT_BACKEND, JStr(Str("auto")))
               /\ Get(merged, ModelKey) = Pick(ArgModel, STT_MODEL, JStr(Str("tiny")))
               /\ Get(merged, LanguageKey) = Pick(ArgLanguage, STT_LANGUAGE, JStr(Str("en")))
               /\ Get(merged, MaxDurationKey) =
                      IF Given(args, ArgMaxDuration) THEN Get(args, ArgMaxDuration)
                      ELSE IF ~Set(STT_MAX_DURATION) THEN JInt(30)
                      ELSE IF text = <<Txt("4"), Txt("5")>> THEN JInt(45)
                      ELSE IF text = <<Txt("1"), Txt("0"), Txt("s")>> THEN JInt(10)
                      ELSE JNaN
               /\ Get(merged, PythonPathKey) =
                      IF Set(STT_PYTHON_PATH) THEN Get(env.vars, STT_PYTHON_PATH)
                      ELSE JStr(Str("python3"))
               /\ spawned[c][1].file = Get(merged, PythonPathKey).s

C13_Witness ==
    \E c \in AllCalls :
        /\ IsToolCall(c)
        /\ call[c].toolArgs = JObj(<<ArgModel>>, <<JStr(Str("medium"))>>)
        /\ Get(env.vars, STT_BACKEND) = JStr(Str("faster-whisper"))
        /\ Get(call[c].mergedConfig, ModelKey) = JStr(Str("medium"))
        /\ Get(call[c].mergedConfig, BackendKey) = JStr(Str("faster-whisper"))
        /\ child[c].st = "closed"

\* ---------------------------------------------------------------- stream claims
\* A running worker is blocked when it has more to write to a stream whose
\* pipe is full and has no listener to empty it.
Blocked(c) ==
    /\ child[c].st = "running"
    /\ child[c].pendErr # <<>>
    /\ "stderr" \notin child[c].flowing
    /\ child[c].pipeErr >= PipeCapacity

\* C14: whatever amount a worker writes to stdout or stderr, under transcribe
\* and under listBackends, it is never blocked on a full pipe, because both
\* streams of every running child have a listener.
C14_NoWorkerBlocksOnFullPipe == \A c \in AllCalls : ~Blocked(c)

\* C15: the promise of a transcribe call is fulfilled only by the step that
\* handles its child's close event or error event; while the worker runs the
\* promise stays pending, however long that is; and when the close event
\* fulfils it, the worker has written all its output and the accumulators
\* hold all of it.
C15_ResolvesOnlyOnCloseOrError ==
    [][\A c \in AllCalls :
         kind'[c] = "transcribe" =>
             /\ child'[c].st = "running" => promise'[c].state = "pending"
             /\ (promise[c].state = "pending" /\ promise'[c].state = "fulfilled") =>
                    \/ /\ child[c].st = "failing"
                       /\ child'[c].st = "errored"
                    \/ /\ child[c].st = "running"
                       /\ child'[c].st = "closed"
                       /\ child[c].pendOut = <<>> /\ child[c].pendErr = <<>>
                       /\ stdout[c] = child[c].wroteOut
                       /\ stderr[c] = child[c].wroteErr]_vars

C15_Witness ==
    \E c \in AllCalls :
        /\ kind[c] = "transcribe"
        /\ child[c].st = "closed"
        /\ child[c].errno = 0
        /\ promise[c].state = "fulfilled"
        /\ child[c].wroteOut # <<>>
        /\ child[c].wroteErr # <<>>

\* ---------------------------------------------------------------- call claims
\* C16: a call that has been made has called spawn exactly once, and that
\* stays so after a spawn failure, a non-zero exit or unparsable output; a call
\* not yet made has spawned nothing; and the list a listBackends call returns
\* is read from the output of its own worker, not kept from an earlier call.
C16_OneSpawnPerCall ==
    \A c \in AllCalls :
        /\ kind[c] = "none" => spawned[c] = <<>>
        /\ kind[c] # "none" => Len(spawned[c]) = 1
        /\ (kind[c] = "listBackends" /\ Ran(c)) =>
               /\ Fulfilled(c)
               /\ Value(c) = listBackendsOnClose(child[c].wroteOut)

C16_Witness ==
    \E c, d \in AllCalls :
        /\ kind[c] = "listBackends" /\ Ran(c)
        /\ kind[d] = "listBackends" /\ Ran(d)
        /\ Value(c) = JArr(<<JStr(Str("whisper"))>>)
        /\ Value(d) = JArr(<<>>)
        /\ child[d].exitCode # CodeOf(0)
        /\ Len(spawned[c]) = 1 /\ Len(spawned[d]) = 1

\* C17: with several calls in flight, in every interleaving of their events
\* each call's accumulators hold exactly what its own child has written to
\* the streams the call listens to, and its result is the one its own handlers
\* give for its own child's output, exit code or spawn error.
C17_ConcurrentCallsIndependent ==
    \A c \in AllCalls :
        /\ stdout[c] = child[c].wroteOut
        /\ stderr[c] = IF kind[c] = "transcribe" THEN child[c].wroteErr ELSE <<>>
        /\ (kind[c] = "transcribe" /\ Ran(c)) =>
               /\ Fulfilled(c)
               /\ Value(c) = transcribeOnClose(child[c].exitCode, child[c].wroteOut,
                                               child[c].wroteErr)
        /\ (kind[c] = "transcribe" /\ SpawnFailed(c)) =>
               /\ Fulfilled(c)
               /\ Value(c) = transcribeOnError(child[c].message)
        /\ (kind[c] = "listBackends" /\ Ran(c)) =>
               /\ Fulfilled(c)
               /\ Value(c) = listBackendsOnClose(child[c].wroteOut)
        /\ (kind[c] = "listBackends" /\ SpawnFailed(c)) =>
               /\ Fulfilled(c)
               /\ Value(c) = listBackendsOnError

C17_Witness ==
    \E c, d \in AllCalls :
        /\ c # d
        /\ kind[c] = "transcribe" /\ kind[d] = "transcribe"
        /\ child[c].st = "running" /\ stdout[c] = <<Txt("Traceback")>>
        /\ Ran(d) /\ child[d].wroteErr = <<Txt("mic not found")>>
        /\ IsFailure(Value(d))
        /\ ~Includes(ErrorOf(Value(d)), <<Txt("Traceback")>>)

\* ---------------------------------------------------------------- script path claim
\* The package root of the module at a file URL, followed by scripts/stt.py.
BundledScript(url) == SubSeq(url, 2, Len(url) - 2) \o <<Txt("/scripts"), Txt("/stt.py")>>

\* C18: the script transcribe passes to the interpreter is the configuration's
\* scriptPath when that is a non-empty string, and otherwise scripts/stt.py
\* under the parent of the module's directory, whatever the working
\* directory; listBackends always passes that default.
C18_ScriptPathOverrideOrBundled ==
    \A c \in AllCalls :
        /\ kind[c] = "transcribe" =>
               spawned[c][1].args[1] =
                   IF /\ HasKey(call[c].config, ScriptPathKey)
                      /\ Get(call[c].config, ScriptPathKey).s # <<>>
                   THEN Get(call[c].config, ScriptPathKey).s
                   ELSE BundledScript(env.moduleUrl)
        /\ kind[c] = "listBackends" =>
               spawned[c][1].args = <<BundledScript(env.moduleUrl), Str("--list-backends")>>
        /\ (kind[c] # "none" /\ env.moduleUrl[2] = Txt("/pkg")
              /\ ~HasKey(call[c].config, ScriptPathKey)) =>
               spawned[c][1].args[1] = <<Txt("/pkg"), Txt("/scripts"), Txt("/stt.py")>>

C18_Witness ==
    \E c \in AllCalls :
        /\ kind[c] = "transcribe"
        /\ call[c].config = JObj(<<ScriptPathKey, ModelKey>>, <<JStr(Str("")), JStr(Str("base"))>>)
        /\ env.cwd = <<Txt("/home"), Txt("/user")>>
        /\ spawned[c][1].args[1] = <<Txt("/pkg"), Txt("/scripts"), Txt("/stt.py")>>
        /\ child[c].st = "running"

C20_SettledOnce ==
    [][\A c \in AllCalls :
         /\ promise[c].state # "pending" => promise'[c] = promise[c]
         /\ (kind[c] = "transcribe" /\ child[c].st = "errored" /\ child'[c].st = "closed") =>
                /\ Fulfilled(c)
                /\ promise'[c].value = transcribeOnError(child[c].message)
         /\ (kind[c] = "listBackends" /\ child[c].st = "errored" /\ child'[c].st = "closed") =>
                /\ Fulfilled(c)
                /\ promise'[c].value = listBackendsOnError]_vars

C20_Witness ==
    \E c \in AllCalls :
        /\ kind[c] = "transcribe"
        /\ child[c].st = "closed"
        /\ child[c].errno # 0
        /\ child[c].exitCode = CodeOf(child[c].errno)
        /\ Value(c) = transcribeOnError(child[c].message)
        /\ Value(c) # transcribeOnClose(child[c].exitCode, stdout[c], stderr[c])

====
